---- MODULE Spec2Model ----
(***************************************************************************)
(* A model of marwash: the Washer (washer.go) that pulls bookmarks from a  *)
(* Walker, probes each one with a Pinger under a concurrency quota and     *)
(* vends the results through Next, and StartWashTillDone, which drives a   *)
(* Washer to an output writer.                                             *)
(*                                                                         *)
(* Goroutines are processes with a program counter; an unbuffered channel  *)
(* operation is one joint step of its sender and its receiver; a closed    *)
(* channel is a flag; the buffered channel cquota is its length and its    *)
(* capacity.  A deferred call is part of the step that returns.            *)
(***************************************************************************)
EXTENDS Integers, Sequences, FiniteSets, TLC

\* ------------------------------------------------------------------ bounds
MaxRecords == 3          \* the Walker yields at most this many bookmarks
MaxQuota == 2            \* the largest cquota NewWasher is given
MaxEofCalls == 2         \* Next is called until it has returned io.EOF this often

Records == 1..MaxRecords

\* ------------------------------------------------------- values of the code
Nil == "nil"
EOF == "EOF"             \* io.EOF
Boom == "boom!"          \* a non-EOF error of Walker.Next

Unknown == "unknown"     \* PingStatus and its String()
Alive == "alive"
Dead == "dead"

\* What a Pinger may return for one URL: <<status, error>>.
PingOutcomes == { <<Alive, Nil>>, <<Unknown, "poom!">> }

\* The URL of the i-th bookmark of the Walker; two bookmarks may share a URL.
URLOf(i) == IF i % 2 = 1 THEN "https://foo" ELSE "https://bar"

\* The integers NewWasher is called with.
QuotaArgs == -1..MaxQuota

VARIABLES
    \* the Walker: a finite sequence of walkLen bookmarks, then walkEnd
    walkLen, walkEnd, walkPos,
    walkStops,      \* how often Walker.Stop was called
    \* Washer fields
    built,          \* "no", "yes" (NewWasher returned), "panic" (it panicked)
    cquotaCap,      \* cap(w.cquota)
    cquotaLen,      \* len(w.cquota)
    done,           \* w.done is closed
    started,        \* w.started
    washedClosed,   \* w.washed is closed
    walkedClosed,   \* w.walked is closed
    \* wash(): its locals and goroutines
    wkerr, wg, washPc, pullPc, pullBmk,
    taskPc, taskStatus, taskErr, bmkStatus,
    \* the caller of Next
    nextPc, returned,
    \* StartWashTillDone: its goroutine, the goroutine iterating the washer,
    \* its channels washed, done and sigs, the string builder and the writer
    mainPc, gPc, runWashedClosed, runDone, sigs, sigTaken, sb, out

washerVars == <<built, cquotaCap, cquotaLen, done, started, washedClosed,
                walkedClosed, wkerr, wg, washPc, pullPc, pullBmk,
                taskPc, taskStatus, taskErr, bmkStatus>>
walkerVars == <<walkLen, walkEnd, walkPos, walkStops>>
callerVars == <<nextPc, returned>>

runVars == <<mainPc, gPc, runWashedClosed, runDone, sigs, sigTaken, sb, out>>

VARIABLES
    \* NetscapeWalker, on a document of its own
    nwElems,        \* the elements of the document
    nwToks,         \* the tokens the tokenizer cuts it into
    nwTail,         \* what follows them: EOF, ReadErr or Endless
    zPos,           \* tokens of nwToks the tokenizer has handed out
    anchor, bmk,    \* locals of walk(); bmk is <<>> for nil
    scanPc,         \* where walk() is
    nwErr,          \* the error walk() is about to send
    wchanClosed,    \* w.wchan is closed
    nwDone,         \* w.done is closed
    nwStarted,      \* w.started
    nwNextPc,       \* the caller of NetscapeWalker.Next
    nwLate,         \* its current call began after Stop had returned
    nwRun,          \* tokens walk() has taken since it started or last sent
    nwReturned      \* what Next has returned, in order

nwVars == <<nwElems, nwToks, nwTail, zPos, anchor, bmk, scanPc, nwErr,
            wchanClosed, nwDone, nwStarted, nwNextPc, nwLate, nwRun,
            nwReturned>>

VARIABLES
    \* HTTPinger, on one call of Ping
    pgUrlOk,        \* http.NewRequest accepts the URL
    pgPc,           \* "idle", the method of the running pingFn, "returned"
    pgTries,        \* attempts retry.Do has made in the running pingFn
    pgOut,          \* the method of the request Doer.Do is serving, or "none"
    pgReqs,         \* the requests served, in order, with what Do returned
    pgStatus, pgErr \* what the last pingFn returned; at the end, Ping's result

pingVars == <<pgUrlOk, pgPc, pgTries, pgOut, pgReqs, pgStatus, pgErr>>

\* The components that are also run on their own.
ownVars == <<nwVars, pingVars>>

vars == <<walkerVars, washerVars, callerVars, runVars, ownVars>>

\* A Result as Next returns it: the bookmark (0 for a nil pointer) with the
\* Status it carries at that moment, and the error.
RecordResult(i, e) == [B |-> i, URL |-> URLOf(i), Status |-> bmkStatus[i], E |-> e]
NilResult(e) == [B |-> 0, URL |-> Nil, Status |-> Nil, E |-> e]

EofCount(s) == Cardinality({ n \in 1..Len(s) : s[n].E = EOF })

\* ------------------------------------------------------------------- Init
WalkerInit ==
    /\ walkLen \in 0..MaxRecords
    /\ walkEnd \in {EOF, Boom}
    /\ walkPos = 0
    /\ walkStops = 0

WasherInit ==
    /\ built = "no"
    /\ cquotaCap = 0
    /\ cquotaLen = 0
    /\ done = FALSE
    /\ started = FALSE
    /\ washedClosed = FALSE
    /\ walkedClosed = FALSE
    /\ wkerr = Nil
    /\ wg = 0
    /\ washPc = "idle"
    /\ pullPc = "idle"
    /\ pullBmk = 0
    /\ taskPc = [i \in Records |-> "none"]
    /\ taskStatus = [i \in Records |-> Unknown]
    /\ bmkStatus = [i \in Records |-> Unknown]
    /\ taskErr = [i \in Records |-> Nil]

CallerInit ==
    /\ nextPc = "idle"
    /\ returned = <<>>

RunInit ==
    /\ mainPc = "main"
    /\ gPc = "idle"
    /\ runWashedClosed = FALSE
    /\ runDone = FALSE
    /\ sigs = 0
    /\ sigTaken = FALSE
    /\ sb = <<>>
    /\ out = <<>>

\* A NetscapeWalker that is not used: the Washer's Walker is walkerVars.
NetscapeIdle ==
    /\ nwElems = <<>>
    /\ nwToks = <<>>
    /\ nwTail = EOF
    /\ zPos = 0
    /\ anchor = FALSE
    /\ bmk = <<>>
    /\ scanPc = "idle"
    /\ nwErr = Nil
    /\ wchanClosed = FALSE
    /\ nwDone = FALSE
    /\ nwStarted = FALSE
    /\ nwNextPc = "idle"
    /\ nwLate = FALSE
    /\ nwRun = 0
    /\ nwReturned = <<>>

\* An HTTPinger that is not used: the Washer's Pinger is PingOutcomes.
PingerIdle ==
    /\ pgUrlOk = TRUE
    /\ pgPc = "idle"
    /\ pgTries = 0
    /\ pgOut = "none"
    /\ pgReqs = <<>>
    /\ pgStatus = Unknown
    /\ pgErr = Nil

Init == WalkerInit /\ WasherInit /\ CallerInit /\ RunInit /\ NetscapeIdle /\ PingerIdle

\* ------------------------------------------------------------- the Washer
\* NewWasher: make(chan struct{}, cquota) panics for a negative size and
\* makes an unbuffered channel for 0; there is no other check.
NewWasherDo(n) ==
    /\ built = "no"
    /\ IF n < 0
       THEN built' = "panic" /\ UNCHANGED cquotaCap
       ELSE built' = "yes" /\ cquotaCap' = n
    /\ UNCHANGED <<cquotaLen, done, started, washedClosed, walkedClosed, wkerr,
                   wg, washPc, pullPc, pullBmk, taskPc, taskStatus, taskErr, bmkStatus>>

NewWasher(n) ==
    /\ NewWasherDo(n)
    /\ UNCHANGED <<walkerVars, callerVars, runVars>>
    /\ UNCHANGED ownVars

\* Next up to its receive: the first call starts wash(), which starts the
\* puller and enters its loop.
NextCallDo ==
    /\ built = "yes"
    /\ nextPc = "idle"
    /\ nextPc' = "recv"
    /\ IF ~started
       THEN started' = TRUE /\ washPc' = "loop" /\ pullPc' = "next"
       ELSE UNCHANGED <<started, washPc, pullPc>>
    /\ UNCHANGED <<built, cquotaCap, cquotaLen, done, washedClosed, walkedClosed,
                   wkerr, wg, pullBmk, taskPc, taskStatus, taskErr, bmkStatus>>
    /\ UNCHANGED <<walkerVars, returned>>

\* Next's receive from the closed washed channel.
NextClosed ==
    /\ nextPc = "recv"
    /\ washedClosed
    /\ nextPc' = "idle"
    /\ returned' = Append(returned, NilResult(EOF))
    /\ UNCHANGED <<walkerVars, washerVars>>
    /\ UNCHANGED runVars
    /\ UNCHANGED ownVars

\* Stop closes done.
StopDo ==
    /\ built = "yes"
    /\ ~done
    /\ done' = TRUE
    /\ UNCHANGED <<built, cquotaCap, cquotaLen, started, washedClosed, walkedClosed,
                   wkerr, wg, washPc, pullPc, pullBmk, taskPc, taskStatus, taskErr, bmkStatus>>

Stop ==
    /\ StopDo
    /\ UNCHANGED <<walkerVars, callerVars, runVars>>
    /\ UNCHANGED ownVars

\* What Walker.Next returns, <<bookmark, error>>: the next bookmark, or the
\* end of the walk; once
\* Walker.Stop was called it may return io.EOF in place of a bookmark.
WalkerNext ==
    (IF walkPos < walkLen THEN {<<walkPos + 1, Nil>>} ELSE {<<0, walkEnd>>})
       \cup (IF walkPos < walkLen /\ walkStops > 0 THEN {<<0, EOF>>} ELSE {})

\* The puller: bmk, wkerr = w.walker.Next(); on an error it returns and its
\* deferred close(w.walked) runs.
PullNext ==
    /\ pullPc = "next"
    /\ \E r \in WalkerNext :
         IF r[2] = Nil
         THEN /\ walkPos' = r[1]
              /\ pullBmk' = r[1]
              /\ wkerr' = r[2]
              /\ pullPc' = "send"
              /\ UNCHANGED walkedClosed
         ELSE /\ wkerr' = r[2]
              /\ walkedClosed' = TRUE
              /\ pullPc' = "exited"
              /\ UNCHANGED <<walkPos, pullBmk>>
    /\ UNCHANGED <<walkLen, walkEnd, walkStops>>
    /\ UNCHANGED <<built, cquotaCap, cquotaLen, done, started, washedClosed,
                   wg, washPc, taskPc, taskStatus, taskErr, bmkStatus>>
    /\ UNCHANGED callerVars
    /\ UNCHANGED runVars
    /\ UNCHANGED ownVars

\* Mutant: the dispatcher receives a bookmark only when a slot is free.
DispatchGated ==
    /\ pullPc = "send"
    /\ washPc = "loop"
    /\ cquotaLen < cquotaCap
    /\ pullPc' = "next"
    /\ wg' = wg + 1
    /\ taskPc' = [taskPc EXCEPT ![pullBmk] = "acquire"]
    /\ UNCHANGED <<built, cquotaCap, cquotaLen, done, started, washedClosed,
                   walkedClosed, wkerr, washPc, pullBmk, taskStatus, taskErr, bmkStatus>>
    /\ UNCHANGED <<walkerVars, callerVars>>
    /\ UNCHANGED runVars
    /\ UNCHANGED ownVars

\* The puller's send on walked meets the dispatcher's receive: wg.Add(1) and
\* a probe task for the bookmark.
Dispatch ==
    /\ pullPc = "send"
    /\ washPc = "loop"
    /\ pullPc' = "next"
    /\ wg' = wg + 1
    /\ taskPc' = [taskPc EXCEPT ![pullBmk] = "acquire"]
    /\ UNCHANGED <<built, cquotaCap, cquotaLen, done, started, washedClosed,
                   walkedClosed, wkerr, washPc, pullBmk, taskStatus, taskErr, bmkStatus>>
    /\ UNCHANGED <<walkerVars, callerVars>>
    /\ UNCHANGED runVars
    /\ UNCHANGED ownVars

\* The puller's select takes <-w.done: it returns and closes walked.
PullDone ==
    /\ pullPc = "send"
    /\ done
    /\ pullPc' = "exited"
    /\ walkedClosed' = TRUE
    /\ UNCHANGED <<built, cquotaCap, cquotaLen, done, started, washedClosed,
                   wkerr, wg, washPc, pullBmk, taskPc, taskStatus, taskErr, bmkStatus>>
    /\ UNCHANGED <<walkerVars, callerVars>>
    /\ UNCHANGED runVars
    /\ UNCHANGED ownVars

\* Mutant: wash() returns without waiting for the probe tasks.
DispatchClosedNoWait ==
    /\ washPc = "loop"
    /\ walkedClosed
    /\ washPc' = IF wkerr # Nil THEN "senderr" ELSE "close"
    /\ UNCHANGED <<built, cquotaCap, cquotaLen, done, started, washedClosed,
                   walkedClosed, wkerr, wg, pullPc, pullBmk, taskPc, taskStatus, taskErr, bmkStatus>>
    /\ UNCHANGED <<walkerVars, callerVars, runVars>>
    /\ UNCHANGED ownVars

\* The dispatcher's select receives from the closed walked, or takes <-w.done:
\* wash() returns into its deferred function.
DispatchClosed ==
    /\ washPc = "loop"
    /\ walkedClosed
    /\ washPc' = "wait"
    /\ UNCHANGED <<built, cquotaCap, cquotaLen, done, started, washedClosed,
                   walkedClosed, wkerr, wg, pullPc, pullBmk, taskPc, taskStatus, taskErr, bmkStatus>>
    /\ UNCHANGED <<walkerVars, callerVars>>
    /\ UNCHANGED runVars
    /\ UNCHANGED ownVars

\* Mutant: on <-w.done wash() goes to its close without wg.Wait().
DispatchDoneNoWait ==
    /\ washPc = "loop"
    /\ done
    /\ washPc' = IF wkerr # Nil THEN "senderr" ELSE "close"
    /\ UNCHANGED <<built, cquotaCap, cquotaLen, done, started, washedClosed,
                   walkedClosed, wkerr, wg, pullPc, pullBmk, taskPc, taskStatus, taskErr, bmkStatus>>
    /\ UNCHANGED <<walkerVars, callerVars, runVars>>
    /\ UNCHANGED ownVars

DispatchDone ==
    /\ washPc = "loop"
    /\ done
    /\ washPc' = "wait"
    /\ UNCHANGED <<built, cquotaCap, cquotaLen, done, started, washedClosed,
                   walkedClosed, wkerr, wg, pullPc, pullBmk, taskPc, taskStatus, taskErr, bmkStatus>>
    /\ UNCHANGED <<walkerVars, callerVars>>
    /\ UNCHANGED runVars
    /\ UNCHANGED ownVars

\* Mutant: the deferred function never sends the walker error.
WashWaitDropErr ==
    /\ washPc = "wait"
    /\ wg = 0
    /\ washPc' = "close"
    /\ UNCHANGED <<built, cquotaCap, cquotaLen, done, started, washedClosed,
                   walkedClosed, wkerr, wg, pullPc, pullBmk, taskPc, taskStatus, taskErr, bmkStatus>>
    /\ UNCHANGED <<walkerVars, callerVars, runVars>>
    /\ UNCHANGED ownVars

\* The deferred function: wg.Wait() returns, then wkerr is read.  When wash()
\* left its loop by <-w.done the puller may still be running and this read
\* races with its write of wkerr: the read sees the value before or after
\* it, as this step comes before or after PullNext.
WashWait ==
    /\ washPc = "wait"
    /\ wg = 0
    /\ washPc' = IF wkerr # Nil THEN "senderr" ELSE "close"
    /\ UNCHANGED <<built, cquotaCap, cquotaLen, done, started, washedClosed,
                   walkedClosed, wkerr, wg, pullPc, pullBmk, taskPc, taskStatus, taskErr, bmkStatus>>
    /\ UNCHANGED <<walkerVars, callerVars>>
    /\ UNCHANGED runVars
    /\ UNCHANGED ownVars

\* Mutant: after sending the walker error the deferred function returns
\* without closing washed.
WashSendErrNoClose ==
    /\ washPc = "senderr"
    /\ nextPc = "recv"
    /\ washPc' = "exited"
    /\ nextPc' = "idle"
    /\ returned' = Append(returned, NilResult(wkerr))
    /\ UNCHANGED <<built, cquotaCap, cquotaLen, done, started, washedClosed,
                   walkedClosed, wkerr, wg, pullPc, pullBmk, taskPc, taskStatus, taskErr, bmkStatus>>
    /\ UNCHANGED <<walkerVars, runVars>>
    /\ UNCHANGED ownVars

\* The deferred select sends Result{B: nil, E: wkerr} to Next ...
WashSendErr ==
    /\ washPc = "senderr"
    /\ nextPc = "recv"
    /\ washPc' = "close"
    /\ nextPc' = "idle"
    /\ returned' = Append(returned, NilResult(wkerr))
    /\ UNCHANGED <<built, cquotaCap, cquotaLen, done, started, washedClosed,
                   walkedClosed, wkerr, wg, pullPc, pullBmk, taskPc, taskStatus, taskErr, bmkStatus>>
    /\ UNCHANGED walkerVars
    /\ UNCHANGED runVars
    /\ UNCHANGED ownVars

\* ... or takes <-w.done and returns without closing washed.
WashSendErrDone ==
    /\ washPc = "senderr"
    /\ done
    /\ washPc' = "exited"
    /\ UNCHANGED <<built, cquotaCap, cquotaLen, done, started, washedClosed,
                   walkedClosed, wkerr, wg, pullPc, pullBmk, taskPc, taskStatus, taskErr, bmkStatus>>
    /\ UNCHANGED <<walkerVars, callerVars>>
    /\ UNCHANGED runVars
    /\ UNCHANGED ownVars

WashClose ==
    /\ washPc = "close"
    /\ washedClosed' = TRUE
    /\ washPc' = "exited"
    /\ UNCHANGED <<built, cquotaCap, cquotaLen, done, started,
                   walkedClosed, wkerr, wg, pullPc, pullBmk, taskPc, taskStatus, taskErr, bmkStatus>>
    /\ UNCHANGED <<walkerVars, callerVars>>
    /\ UNCHANGED runVars
    /\ UNCHANGED ownVars

\* Mutant: the quota admits one task too many.
CanAcquireOffByOne == cquotaLen <= cquotaCap

\* A probe task's first select: w.cquota <- struct{}{} when the buffer has room
CanAcquire == cquotaLen < cquotaCap

TaskAcquire(i) ==
    /\ taskPc[i] = "acquire"
    /\ CanAcquire
    /\ cquotaLen' = cquotaLen + 1
    /\ taskPc' = [taskPc EXCEPT ![i] = "ping"]
    /\ UNCHANGED <<built, cquotaCap, done, started, washedClosed, walkedClosed,
                   wkerr, wg, washPc, pullPc, pullBmk, taskStatus, taskErr, bmkStatus>>
    /\ UNCHANGED <<walkerVars, callerVars>>
    /\ UNCHANGED runVars
    /\ UNCHANGED ownVars

\* Mutant: a task that gives up waiting for a slot returns without wg.Done().
TaskAcquireDoneNoWgDone(i) ==
    /\ taskPc[i] = "acquire"
    /\ done
    /\ taskPc' = [taskPc EXCEPT ![i] = "exited"]
    /\ UNCHANGED <<built, cquotaCap, cquotaLen, done, started, washedClosed, walkedClosed,
                   wkerr, wg, washPc, pullPc, pullBmk, taskStatus, taskErr, bmkStatus>>
    /\ UNCHANGED <<walkerVars, callerVars>>
    /\ UNCHANGED runVars
    /\ UNCHANGED ownVars

\* ... or <-w.done: the task returns; wg.Done() runs.
TaskAcquireDone(i) ==
    /\ taskPc[i] = "acquire"
    /\ done
    /\ taskPc' = [taskPc EXCEPT ![i] = "exited"]
    /\ wg' = wg - 1
    /\ UNCHANGED <<built, cquotaCap, cquotaLen, done, started, washedClosed, walkedClosed,
                   wkerr, washPc, pullPc, pullBmk, taskStatus, taskErr, bmkStatus>>
    /\ UNCHANGED <<walkerVars, callerVars>>
    /\ UNCHANGED runVars
    /\ UNCHANGED ownVars

\* Mutant: the slot is given back as soon as Ping has returned.
TaskPingReleaseEarly(i) ==
    /\ taskPc[i] = "ping"
    /\ \E o \in PingOutcomes :
          /\ taskStatus' = [taskStatus EXCEPT ![i] = o[1]]
          /\ taskErr' = [taskErr EXCEPT ![i] = o[2]]
          /\ bmkStatus' = [bmkStatus EXCEPT ![i] = o[1]]
    /\ taskPc' = [taskPc EXCEPT ![i] = "deliver"]
    /\ cquotaLen' = cquotaLen - 1
    /\ UNCHANGED <<built, cquotaCap, done, started, washedClosed, walkedClosed,
                   wkerr, wg, washPc, pullPc, pullBmk>>
    /\ UNCHANGED <<walkerVars, callerVars>>
    /\ UNCHANGED runVars
    /\ UNCHANGED ownVars

\* Mutant: the task may call Ping again after Ping has returned.
TaskPingTwice(i) ==
    /\ taskPc[i] = "ping"
    /\ \E o \in PingOutcomes :
          /\ taskStatus' = [taskStatus EXCEPT ![i] = o[1]]
          /\ taskErr' = [taskErr EXCEPT ![i] = o[2]]
          /\ bmkStatus' = [bmkStatus EXCEPT ![i] = o[1]]
    /\ \E pc \in {"ping", "deliver"} : taskPc' = [taskPc EXCEPT ![i] = pc]
    /\ UNCHANGED <<built, cquotaCap, cquotaLen, done, started, washedClosed, walkedClosed,
                   wkerr, wg, washPc, pullPc, pullBmk>>
    /\ UNCHANGED <<walkerVars, callerVars>>
    /\ UNCHANGED runVars
    /\ UNCHANGED ownVars

\* Mutant: the status Ping returned is not stored in the bookmark.
TaskPingNoStatus(i) ==
    /\ taskPc[i] = "ping"
    /\ \E o \in PingOutcomes :
          /\ taskStatus' = [taskStatus EXCEPT ![i] = o[1]]
          /\ taskErr' = [taskErr EXCEPT ![i] = o[2]]
    /\ taskPc' = [taskPc EXCEPT ![i] = "deliver"]
    /\ UNCHANGED <<built, cquotaCap, cquotaLen, done, started, washedClosed, walkedClosed,
                   wkerr, wg, washPc, pullPc, pullBmk, bmkStatus>>
    /\ UNCHANGED <<walkerVars, callerVars, runVars>>
    /\ UNCHANGED ownVars

\* status, err := w.pinger.Ping(bmk.URL); bmk.Status = status
TaskPing(i) ==
    /\ taskPc[i] = "ping"
    /\ \E o \in PingOutcomes :
          /\ taskStatus' = [taskStatus EXCEPT ![i] = o[1]]
          /\ taskErr' = [taskErr EXCEPT ![i] = o[2]]
          /\ bmkStatus' = [bmkStatus EXCEPT ![i] = o[1]]
    /\ taskPc' = [taskPc EXCEPT ![i] = "deliver"]
    /\ UNCHANGED <<built, cquotaCap, cquotaLen, done, started, washedClosed, walkedClosed,
                   wkerr, wg, washPc, pullPc, pullBmk>>
    /\ UNCHANGED <<walkerVars, callerVars>>
    /\ UNCHANGED runVars
    /\ UNCHANGED ownVars

\* Mutant: the task sends its Result and stays in its select, to send again.
TaskDeliverAgain(i) ==
    /\ taskPc[i] = "deliver"
    /\ nextPc = "recv"
    /\ nextPc' = "idle"
    /\ returned' = Append(returned, RecordResult(i, taskErr[i]))
    /\ UNCHANGED washerVars
    /\ UNCHANGED <<walkerVars, runVars>>
    /\ UNCHANGED ownVars

\* The task's second select sends its Result to Next; then the deferred
\* <-w.cquota and wg.Done() run.
TaskDeliver(i) ==
    /\ taskPc[i] = "deliver"
    /\ nextPc = "recv"
    /\ nextPc' = "idle"
    /\ returned' = Append(returned, RecordResult(i, taskErr[i]))
    /\ taskPc' = [taskPc EXCEPT ![i] = "exited"]
    /\ cquotaLen' = cquotaLen - 1
    /\ wg' = wg - 1
    /\ UNCHANGED <<built, cquotaCap, done, started, washedClosed, walkedClosed,
                   wkerr, washPc, pullPc, pullBmk, taskStatus, taskErr, bmkStatus>>
    /\ UNCHANGED walkerVars
    /\ UNCHANGED runVars
    /\ UNCHANGED ownVars

\* Mutant: a task that takes <-w.done keeps its slot.
TaskDeliverDoneLeak(i) ==
    /\ taskPc[i] = "deliver"
    /\ done
    /\ taskPc' = [taskPc EXCEPT ![i] = "exited"]
    /\ wg' = wg - 1
    /\ UNCHANGED <<built, cquotaCap, cquotaLen, done, started, washedClosed, walkedClosed,
                   wkerr, washPc, pullPc, pullBmk, taskStatus, taskErr, bmkStatus>>
    /\ UNCHANGED <<walkerVars, callerVars>>
    /\ UNCHANGED runVars
    /\ UNCHANGED ownVars

\* ... or takes <-w.done; the deferred calls run all the same.
TaskDeliverDone(i) ==
    /\ taskPc[i] = "deliver"
    /\ done
    /\ taskPc' = [taskPc EXCEPT ![i] = "exited"]
    /\ cquotaLen' = cquotaLen - 1
    /\ wg' = wg - 1
    /\ UNCHANGED <<built, cquotaCap, done, started, washedClosed, walkedClosed,
                   wkerr, washPc, pullPc, pullBmk, taskStatus, taskErr, bmkStatus>>
    /\ UNCHANGED <<walkerVars, callerVars>>
    /\ UNCHANGED runVars
    /\ UNCHANGED ownVars

\* The goroutines wash() runs.
WashStep ==
    \/ PullNext
    \/ Dispatch
    \/ PullDone
    \/ DispatchClosed
    \/ DispatchDone
    \/ WashWait
    \/ WashSendErr
    \/ WashSendErrDone
    \/ WashClose
    \/ \E i \in Records : TaskAcquire(i)
    \/ \E i \in Records : TaskAcquireDone(i)
    \/ \E i \in Records : TaskPing(i)
    \/ \E i \in Records : TaskDeliver(i)
    \/ \E i \in Records : TaskDeliverDone(i)

\* A caller that keeps calling Next, also after io.EOF.
CallNext ==
    /\ EofCount(returned) < MaxEofCalls
    /\ NextCallDo
    /\ UNCHANGED runVars
    /\ UNCHANGED ownVars

Next ==
    \/ \E n \in QuotaArgs : NewWasher(n)
    \/ CallNext
    \/ NextClosed
    \/ Stop
    \/ WashStep

Spec == Init /\ [][Next]_vars

\* ------------------------------------------------- main, StartWashTillDone
LastReturned == returned[Len(returned)]

\* The iterating goroutine is back from Next and holds what Next returned.
GHolds == gPc = "inNext" /\ nextPc = "idle"

\* main checks the -c flag and calls StartWashTillDone, which builds the
\* washer and starts the goroutine that iterates it.
RunMain(n) ==
    /\ mainPc = "main"
    /\ IF n <= 0
       THEN mainPc' = "exit1" /\ UNCHANGED <<washerVars, gPc>>
       ELSE NewWasherDo(n) /\ mainPc' = "loop" /\ gPc' = "loop"
    /\ UNCHANGED <<runWashedClosed, runDone, sigs, sigTaken, sb, out>>
    /\ UNCHANGED <<walkerVars, callerVars>>
    /\ UNCHANGED ownVars

\* The goroutine calls washer.Next().
GNext ==
    /\ gPc = "loop"
    /\ NextCallDo
    /\ gPc' = "inNext"
    /\ UNCHANGED <<mainPc, runWashedClosed, runDone, sigs, sigTaken, sb, out>>
    /\ UNCHANGED ownVars

\* err == io.EOF: the goroutine returns and its deferred close(washed) runs.
GEof ==
    /\ GHolds
    /\ LastReturned.E = EOF
    /\ gPc' = "exited"
    /\ runWashedClosed' = TRUE
    /\ UNCHANGED <<mainPc, runDone, sigs, sigTaken, sb, out>>
    /\ UNCHANGED <<walkerVars, washerVars, callerVars>>
    /\ UNCHANGED ownVars

\* The goroutine's select takes <-done.
GAbort ==
    /\ GHolds
    /\ LastReturned.E # EOF
    /\ runDone
    /\ gPc' = "exited"
    /\ runWashedClosed' = TRUE
    /\ UNCHANGED <<mainPc, runDone, sigs, sigTaken, sb, out>>
    /\ UNCHANGED <<walkerVars, washerVars, callerVars>>
    /\ UNCHANGED ownVars

\* Mutant: walker.Stop() is called a second time on the way out.
RunDeferredStopTwice ==
    /\ StopDo
    /\ runDone' = TRUE
    /\ walkStops' = walkStops + 2
    /\ UNCHANGED <<walkLen, walkEnd, walkPos>>

\* StartWashTillDone returns or panics: its deferred calls run, last
\* registered first: washer.Stop(), close(done), walker.Stop().
RunDeferred ==
    /\ StopDo
    /\ runDone' = TRUE
    /\ walkStops' = walkStops + 1
    /\ UNCHANGED <<walkLen, walkEnd, walkPos>>

\* The line for a Result: r.B.Status TAB r.B.URL, then TAB r.E when r.E is
\* not nil, appended to what the builder holds.
Line(r) ==
    sb \o <<bmkStatus[r.B], URLOf(r.B)>> \o (IF r.E # Nil THEN <<r.E>> ELSE <<>>)

\* Mutant: the string builder is not reset after a line.
RunReceiveNoReset ==
    /\ mainPc = "loop"
    /\ GHolds
    /\ LastReturned.E # EOF
    /\ gPc' = "loop"
    /\ IF LastReturned.B = 0
       THEN /\ mainPc' = "panicked"
            /\ RunDeferred
            /\ UNCHANGED <<sb, out>>
       ELSE /\ out' = Append(out, Line(LastReturned))
            /\ sb' = Line(LastReturned)
            /\ UNCHANGED <<mainPc, runDone, walkerVars, washerVars>>
    /\ UNCHANGED <<runWashedClosed, sigs, sigTaken>>
    /\ UNCHANGED callerVars
    /\ UNCHANGED ownVars

\* The goroutine's send on washed meets the receive of StartWashTillDone's
\* select, which formats r.B.Status and r.B.URL (a nil r.B panics), writes
\* the line and resets the builder.
RunReceive ==
    /\ mainPc = "loop"
    /\ GHolds
    /\ LastReturned.E # EOF
    /\ gPc' = "loop"
    /\ IF LastReturned.B = 0
       THEN /\ mainPc' = "panicked"
            /\ RunDeferred
            /\ UNCHANGED <<sb, out>>
       ELSE /\ out' = Append(out, Line(LastReturned))
            /\ sb' = <<>>
            /\ UNCHANGED <<mainPc, runDone, walkerVars, washerVars>>
    /\ UNCHANGED <<runWashedClosed, sigs, sigTaken>>
    /\ UNCHANGED callerVars
    /\ UNCHANGED ownVars

\* The select receives from the closed washed: StartWashTillDone returns.
RunClosed ==
    /\ mainPc = "loop"
    /\ runWashedClosed
    /\ mainPc' = "returned"
    /\ RunDeferred
    /\ UNCHANGED <<gPc, runWashedClosed, sigs, sigTaken, sb, out>>
    /\ UNCHANGED callerVars
    /\ UNCHANGED ownVars

\* Mutant: on a signal StartWashTillDone returns without its deferred calls.
RunSignalNoStop ==
    /\ mainPc = "loop"
    /\ sigs > 0
    /\ sigs' = sigs - 1
    /\ sigTaken' = TRUE
    /\ mainPc' = "returned"
    /\ UNCHANGED <<gPc, runWashedClosed, runDone, sb, out>>
    /\ UNCHANGED <<walkerVars, washerVars, callerVars>>
    /\ UNCHANGED ownVars

\* The select receives a signal: StartWashTillDone returns.
RunSignal ==
    /\ mainPc = "loop"
    /\ sigs > 0
    /\ sigs' = sigs - 1
    /\ sigTaken' = TRUE
    /\ mainPc' = "returned"
    /\ RunDeferred
    /\ UNCHANGED <<gPc, runWashedClosed, sb, out>>
    /\ UNCHANGED callerVars
    /\ UNCHANGED ownVars

\* SIGINT or SIGTERM reaches the process while StartWashTillDone is in its
\* loop.  One signal ends the loop; a later one is never read.
Signal ==
    /\ mainPc = "loop"
    /\ sigs = 0
    /\ sigs' = sigs + 1
    /\ UNCHANGED <<mainPc, gPc, runWashedClosed, runDone, sigTaken, sb, out>>
    /\ UNCHANGED <<walkerVars, washerVars, callerVars>>
    /\ UNCHANGED ownVars

\* The steps of the program itself.
RunStep ==
    \/ \E n \in QuotaArgs : RunMain(n)
    \/ GNext
    \/ GEof
    \/ GAbort
    \/ RunReceive
    \/ RunClosed
    \/ RunSignal
    \/ NextClosed
    \/ WashStep

NextRun ==
    \/ RunStep
    \/ Signal

SpecRun == Init /\ [][NextRun]_vars

\* ------------------------------------------------------- the NetscapeWalker
\* A string is the sequence of its characters; "" is <<>>.
MaxElems == 3            \* a document holds at most this many elements
MaxWalkCalls == 5        \* NetscapeWalker.Next is called at most this often

anchorTag == "a"
ReadErr == "read error"          \* a non-EOF error of the tokenizer
SyntaxErr == "invalid syntax"    \* strconv.ErrSyntax
Endless == "endless"             \* the reader never reports an end

DigitChars == <<"0", "1", "2", "3", "4", "5", "6", "7", "8", "9">>
IsDigit(c) == \E d \in 1..Len(DigitChars) : DigitChars[d] = c
DigitOf(c) == (CHOOSE d \in 1..Len(DigitChars) : DigitChars[d] = c) - 1

RECURSIVE Atoi(_)
Atoi(s) ==
    IF s = <<>> THEN 0
    ELSE 10 * Atoi(SubSeq(s, 1, Len(s) - 1)) + DigitOf(s[Len(s)])

\* strconv.ParseInt(s, 10, 64) as <<value, error>>, for strings without a
\* sign and short of the 64-bit range.
ParseInt(s) ==
    IF s = <<>> \/ \E n \in 1..Len(s) : ~IsDigit(s[n])
    THEN <<0, SyntaxErr>>
    ELSE <<Atoi(s), Nil>>

\* genBookmark: a pointer to a Bookmark is <<b>>, a nil pointer <<>>;
\* time.Unix(secs, 0) is <<secs>> and the zero time.Time is <<>>.
RECURSIVE genFrom(_, _, _)
genFrom(attr, url, addDate) ==
    IF attr = <<>>
    THEN << <<[URL |-> url, Title |-> <<>>, AddDate |-> addDate]>>, Nil >>
    ELSE LET a == Head(attr) IN
         IF a.Key = "href" THEN genFrom(Tail(attr), a.Val, addDate)
         ELSE IF a.Key = "add_date"
         THEN LET secs == ParseInt(a.Val) IN
              IF secs[2] # Nil THEN << <<>>, secs[2] >>
              ELSE genFrom(Tail(attr), url, <<secs[1]>>)
         ELSE genFrom(Tail(attr), url, addDate)

genBookmark(attr) == genFrom(attr, <<>>, <<>>)

\* Tokens as html.Tokenizer hands them out: tag names and attribute keys
\* are in lower case.
Attr(k, v) == [Key |-> k, Val |-> v]
StartTag(d, a) == [Type |-> "StartTagToken", Data |-> d, Attr |-> a]
EndTag(d) == [Type |-> "EndTagToken", Data |-> d, Attr |-> <<>>]
Text(t) == [Type |-> "TextToken", Data |-> t, Attr |-> <<>>]

\* The element kinds a document is made of, and the k-th element's strings.
Elems == {"AFull", "ANoHref", "ABadDate", "ASplit", "Heading", "ANoAttr"}
Href(k) == <<"u", DigitChars[k + 1]>>
Secs(k) == <<"1", DigitChars[k + 1]>>
Label(k) == <<"t", DigitChars[k + 1]>>
Label2(k) == <<"b", DigitChars[k + 1]>>

\* The tokens of the k-th element e.
Markup(e, k) ==
    CASE e = "AFull" ->
           \* <A HREF="uk" ADD_DATE="1k" ICON="i">tk</A>
           << StartTag("a", << Attr("href", Href(k)), Attr("add_date", Secs(k)),
                               Attr("icon", <<"i">>) >>),
              Text(Label(k)), EndTag("a") >>
      [] e = "ANoHref" ->
           \* <A ADD_DATE="1k">tk</A>
           << StartTag("a", << Attr("add_date", Secs(k)) >>),
              Text(Label(k)), EndTag("a") >>
      [] e = "ABadDate" ->
           \* <A HREF="uk" ADD_DATE="1j">tk</A>
           << StartTag("a", << Attr("href", Href(k)), Attr("add_date", <<"1", "j">>) >>),
              Text(Label(k)), EndTag("a") >>
      [] e = "ASplit" ->
           \* <A HREF="uk">tk<B>bk</B></A>
           << StartTag("a", << Attr("href", Href(k)) >>), Text(Label(k)),
              StartTag("b", <<>>), Text(Label2(k)), EndTag("b"), EndTag("a") >>
      [] e = "Heading" ->
           \* <H3 ADD_DATE="1k">tk</H3>
           << StartTag("h3", << Attr("add_date", Secs(k)) >>),
              Text(Label(k)), EndTag("h3") >>
      [] e = "ANoAttr" ->
           \* <A>tk</A>
           << StartTag("a", <<>>), Text(Label(k)), EndTag("a") >>

RECURSIVE Tokens(_, _)
Tokens(elems, k) ==
    IF k > Len(elems) THEN <<>>
    ELSE Markup(elems[k], k) \o Tokens(elems, k + 1)

Documents == UNION { [1..n -> Elems] : n \in 0..MaxElems }

\* NewNetscapeWalker on a document: nothing runs yet.
NetscapeInit ==
    /\ nwElems \in Documents
    /\ nwToks = Tokens(nwElems, 1)
    /\ nwTail \in IF nwElems = <<>> THEN {EOF, ReadErr} ELSE {EOF, ReadErr, Endless}
    /\ zPos = 0
    /\ anchor = FALSE
    /\ bmk = <<>>
    /\ scanPc = "idle"
    /\ nwErr = Nil
    /\ wchanClosed = FALSE
    /\ nwDone = FALSE
    /\ nwStarted = FALSE
    /\ nwNextPc = "idle"
    /\ nwLate = FALSE
    /\ nwRun = 0
    /\ nwReturned = <<>>

\* The Washer and StartWashTillDone are not part of this run.
WasherUnused ==
    /\ walkLen = 0 /\ walkEnd = EOF /\ walkPos = 0 /\ walkStops = 0
    /\ WasherInit /\ CallerInit /\ RunInit

InitWalker == NetscapeInit /\ WasherUnused /\ PingerIdle

restVars == <<walkerVars, washerVars, callerVars, runVars, pingVars>>

\* z.Next(): the next token, or ErrorToken when the input has ended.
HasToken == zPos < Len(nwToks) \/ nwTail = Endless
NextPos == IF zPos < Len(nwToks) THEN zPos + 1 ELSE 1
Tok == nwToks[NextPos]

\* nwRun after one more token; it stops counting past one pass of the input.
Ran == IF nwRun > Len(nwToks) THEN nwRun ELSE nwRun + 1

NetscapeResult(b, e) == [B |-> b, E |-> e, Late |-> nwLate]

\* NetscapeWalker.Next up to its receive; the first call starts walk().
NetscapeNext ==
    /\ nwNextPc = "idle"
    /\ Len(nwReturned) < MaxWalkCalls
    /\ nwNextPc' = "recv"
    /\ nwLate' = nwDone
    /\ IF ~nwStarted
       THEN nwStarted' = TRUE /\ scanPc' = "scan"
       ELSE UNCHANGED <<nwStarted, scanPc>>
    /\ UNCHANGED <<nwElems, nwToks, nwTail, zPos, anchor, bmk, nwErr,
                   wchanClosed, nwDone, nwReturned>>
    /\ UNCHANGED nwRun
    /\ UNCHANGED restVars

\* Next's receive from the closed wchan.
NetscapeNextClosed ==
    /\ nwNextPc = "recv"
    /\ wchanClosed
    /\ nwReturned' = Append(nwReturned, NetscapeResult(<<>>, EOF))
    /\ nwNextPc' = "idle"
    /\ UNCHANGED <<nwElems, nwToks, nwTail, zPos, anchor, bmk, scanPc, nwErr,
                   wchanClosed, nwDone, nwStarted, nwLate>>
    /\ UNCHANGED nwRun
    /\ UNCHANGED restVars

\* NetscapeWalker.Stop; a second call would close a closed channel.
NetscapeStop ==
    /\ ~nwDone
    /\ nwDone' = TRUE
    /\ UNCHANGED <<nwElems, nwToks, nwTail, zPos, anchor, bmk, scanPc, nwErr,
                   wchanClosed, nwStarted, nwNextPc, nwLate, nwReturned>>
    /\ UNCHANGED nwRun
    /\ UNCHANGED restVars

\* walk(), case html.ErrorToken: on to the select that sends z.Err().
WalkErrorToken ==
    /\ scanPc = "scan"
    /\ ~HasToken
    /\ scanPc' = "sendEnd"
    /\ nwErr' = nwTail
    /\ UNCHANGED <<nwElems, nwToks, nwTail, zPos, anchor, bmk,
                   wchanClosed, nwDone, nwStarted, nwNextPc, nwLate, nwReturned>>
    /\ UNCHANGED nwRun
    /\ UNCHANGED restVars

\* Mutant: a start tag of any element with attributes opens a bookmark.
WalkStartTagAnyTag ==
    /\ scanPc = "scan"
    /\ HasToken
    /\ Tok.Type = "StartTagToken"
    /\ zPos' = NextPos
    /\ IF Len(Tok.Attr) = 0
       THEN UNCHANGED <<anchor, bmk, scanPc, nwErr>>
       ELSE LET g == genBookmark(Tok.Attr) IN
            /\ anchor' = TRUE
            /\ bmk' = g[1]
            /\ IF g[2] # Nil
               THEN scanPc' = "sendErr" /\ nwErr' = g[2]
               ELSE UNCHANGED <<scanPc, nwErr>>
    /\ UNCHANGED <<nwElems, nwToks, nwTail,
                   wchanClosed, nwDone, nwStarted, nwNextPc, nwLate, nwReturned>>
    /\ nwRun' = Ran
    /\ UNCHANGED restVars

\* walk(), case html.StartTagToken.
WalkStartTag ==
    /\ scanPc = "scan"
    /\ HasToken
    /\ Tok.Type = "StartTagToken"
    /\ zPos' = NextPos
    /\ IF Tok.Data # anchorTag \/ Len(Tok.Attr) = 0
       THEN UNCHANGED <<anchor, bmk, scanPc, nwErr>>
       ELSE LET g == genBookmark(Tok.Attr) IN
            /\ anchor' = TRUE
            /\ bmk' = g[1]
            /\ IF g[2] # Nil
               THEN scanPc' = "sendErr" /\ nwErr' = g[2]
               ELSE UNCHANGED <<scanPc, nwErr>>
    /\ UNCHANGED <<nwElems, nwToks, nwTail,
                   wchanClosed, nwDone, nwStarted, nwNextPc, nwLate, nwReturned>>
    /\ nwRun' = Ran
    /\ UNCHANGED restVars

\* Mutant: the anchor's end tag does not make walk() wait for a receiver.
WalkEndTagNoHandOff ==
    /\ scanPc = "scan"
    /\ HasToken
    /\ Tok.Type = "EndTagToken"
    /\ zPos' = NextPos
    /\ IF Tok.Data # anchorTag \/ bmk = <<>>
       THEN UNCHANGED <<scanPc, bmk, anchor>>
       ELSE \/ scanPc' = "sendBmk" /\ UNCHANGED <<bmk, anchor>>
            \/ scanPc' = "scan" /\ bmk' = <<>> /\ anchor' = FALSE
    /\ UNCHANGED <<nwElems, nwToks, nwTail, nwErr,
                   wchanClosed, nwDone, nwStarted, nwNextPc, nwLate, nwReturned>>
    /\ nwRun' = Ran
    /\ UNCHANGED restVars

\* walk(), case html.EndTagToken: on to the select that sends the bookmark.
WalkEndTag ==
    /\ scanPc = "scan"
    /\ HasToken
    /\ Tok.Type = "EndTagToken"
    /\ zPos' = NextPos
    /\ IF Tok.Data # anchorTag \/ bmk = <<>>
       THEN UNCHANGED scanPc
       ELSE scanPc' = "sendBmk"
    /\ UNCHANGED <<nwElems, nwToks, nwTail, anchor, bmk, nwErr,
                   wchanClosed, nwDone, nwStarted, nwNextPc, nwLate, nwReturned>>
    /\ nwRun' = Ran
    /\ UNCHANGED restVars

\* walk(), case html.TextToken: the text becomes the title.
WalkText ==
    /\ scanPc = "scan"
    /\ HasToken
    /\ Tok.Type = "TextToken"
    /\ zPos' = NextPos
    /\ IF anchor /\ bmk # <<>>
       THEN bmk' = << [bmk[1] EXCEPT !.Title = Tok.Data] >>
       ELSE UNCHANGED bmk
    /\ UNCHANGED <<nwElems, nwToks, nwTail, anchor, scanPc, nwErr,
                   wchanClosed, nwDone, nwStarted, nwNextPc, nwLate, nwReturned>>
    /\ nwRun' = Ran
    /\ UNCHANGED restVars

\* A select of walk() sends {nil, err} to a waiting Next; walk() returns and
\* its deferred close(wchan) runs.
WalkSendNil ==
    /\ nwNextPc = "recv"
    /\ nwReturned' = Append(nwReturned, NetscapeResult(<<>>, nwErr))
    /\ nwNextPc' = "idle"
    /\ scanPc' = "exited"
    /\ wchanClosed' = TRUE
    /\ UNCHANGED <<nwElems, nwToks, nwTail, zPos, anchor, bmk, nwErr,
                   nwDone, nwStarted, nwLate>>
    /\ UNCHANGED nwRun
    /\ UNCHANGED restVars

\* A select of walk() takes <-w.done; walk() returns and closes wchan.
WalkQuit ==
    /\ nwDone
    /\ scanPc' = "exited"
    /\ wchanClosed' = TRUE
    /\ UNCHANGED <<nwElems, nwToks, nwTail, zPos, anchor, bmk, nwErr,
                   nwDone, nwStarted, nwNextPc, nwLate, nwReturned>>
    /\ UNCHANGED nwRun
    /\ UNCHANGED restVars

\* Mutant: walk() returns after sending z.Err() and leaves wchan open.
WalkSendEndNoClose ==
    /\ scanPc = "sendEnd"
    /\ nwNextPc = "recv"
    /\ nwReturned' = Append(nwReturned, NetscapeResult(<<>>, nwErr))
    /\ nwNextPc' = "idle"
    /\ scanPc' = "exited"
    /\ UNCHANGED <<nwElems, nwToks, nwTail, zPos, anchor, bmk, nwErr,
                   wchanClosed, nwDone, nwStarted, nwLate, nwRun>>
    /\ UNCHANGED restVars

\* The select after html.ErrorToken.
WalkSendEnd ==
    /\ scanPc = "sendEnd"
    /\ WalkSendNil

WalkEndDone ==
    /\ scanPc = "sendEnd"
    /\ WalkQuit

\* Mutant: after sending the error of genBookmark the scan goes on.
WalkSendErrGoOn ==
    /\ scanPc = "sendErr"
    /\ nwNextPc = "recv"
    /\ nwReturned' = Append(nwReturned, NetscapeResult(<<>>, nwErr))
    /\ nwNextPc' = "idle"
    /\ scanPc' = "scan"
    /\ anchor' = FALSE
    /\ nwRun' = 0
    /\ UNCHANGED <<nwElems, nwToks, nwTail, zPos, bmk, nwErr,
                   wchanClosed, nwDone, nwStarted, nwLate>>
    /\ UNCHANGED restVars

\* The select after a failed genBookmark.
WalkSendErr ==
    /\ scanPc = "sendErr"
    /\ WalkSendNil

WalkErrDone ==
    /\ scanPc = "sendErr"
    /\ WalkQuit

\* The select after an anchor's end tag sends the bookmark; bmk and anchor
\* are reset and the scan goes on.
WalkSendBmk ==
    /\ scanPc = "sendBmk"
    /\ nwNextPc = "recv"
    /\ nwReturned' = Append(nwReturned, NetscapeResult(bmk, Nil))
    /\ nwNextPc' = "idle"
    /\ bmk' = <<>>
    /\ anchor' = FALSE
    /\ scanPc' = "scan"
    /\ UNCHANGED <<nwElems, nwToks, nwTail, zPos, nwErr,
                   wchanClosed, nwDone, nwStarted, nwLate>>
    /\ nwRun' = 0
    /\ UNCHANGED restVars

\* Mutant: walk() returns on <-w.done and leaves wchan open.
WalkBmkDoneNoClose ==
    /\ scanPc = "sendBmk"
    /\ nwDone
    /\ scanPc' = "exited"
    /\ UNCHANGED <<nwElems, nwToks, nwTail, zPos, anchor, bmk, nwErr,
                   wchanClosed, nwDone, nwStarted, nwNextPc, nwLate, nwRun,
                   nwReturned>>
    /\ UNCHANGED restVars

WalkBmkDone ==
    /\ scanPc = "sendBmk"
    /\ WalkQuit

WalkStep ==
    \/ WalkErrorToken
    \/ WalkStartTag
    \/ WalkEndTag
    \/ WalkText
    \/ WalkSendEnd
    \/ WalkEndDone
    \/ WalkSendErr
    \/ WalkErrDone
    \/ WalkSendBmk
    \/ WalkBmkDone

NextWalker ==
    \/ NetscapeNext
    \/ NetscapeNextClosed
    \/ NetscapeStop
    \/ WalkStep

SpecWalker == InitWalker /\ [][NextWalker]_vars

\* ------------------------------------------------------------ the HTTPinger
Attempts == 3                       \* retry.Attempts(3)
StatusMethodNotAllowed == 405       \* http.StatusMethodNotAllowed

\* An error value: nil, statusNotAlive(code), a *url.Error with what its
\* Temporary() and Timeout() say, or the error of http.NewRequest.
NoErr == [kind |-> "nil", code |-> 0, temp |-> FALSE, tmout |-> FALSE]
statusNotAlive(c) == [kind |-> "statusNotAlive", code |-> c, temp |-> FALSE, tmout |-> FALSE]
UrlErr(t, o) == [kind |-> "url.Error", code |-> 0, temp |-> t, tmout |-> o]
BadUrlErr == [kind |-> "NewRequest", code |-> 0, temp |-> FALSE, tmout |-> FALSE]

\* Mutant: alive is 200 alone.
aliveOnly200(code) == code = 200

alive(code) == code < 300 /\ code >= 200
dead == {409, 410, 413, 414, 422, 424, 501}
retryable == {421, 429, 500, 502, 503, 504, 507, 599}

\* Mutant: no status is dead.
checkNoDead(code) ==
    IF alive(code) THEN Alive
    ELSE Unknown

check(code) ==
    IF code \in dead THEN Dead
    ELSE IF alive(code) THEN Alive
    ELSE Unknown

\* Mutant: every transport error is retried.
errOrStatusRetryableAnyUrlErr(err) ==
    CASE err.kind = "url.Error" -> TRUE
      [] err.kind = "statusNotAlive" -> err.code \in retryable
      [] OTHER -> FALSE

\* Mutant: every status that is not alive is retried.
errOrStatusRetryableAnyStatus(err) ==
    CASE err.kind = "url.Error" -> err.temp \/ err.tmout
      [] err.kind = "statusNotAlive" -> TRUE
      [] OTHER -> FALSE

errOrStatusRetryable(err) ==
    CASE err.kind = "url.Error" -> err.temp \/ err.tmout
      [] err.kind = "statusNotAlive" -> err.code \in retryable
      [] OTHER -> FALSE

\* Mutant: any status error sends Ping on to the next strategy.
terminalAnyStatus(status, err) ==
    IF status = Alive \/ status = Dead THEN TRUE
    ELSE IF err.kind = "statusNotAlive" THEN FALSE
    ELSE ~errOrStatusRetryable(err)

\* Mutant: 405 is an error like any other.
terminalNo405(status, err) ==
    IF status = Alive \/ status = Dead THEN TRUE
    ELSE ~errOrStatusRetryable(err)

\* Mutant: a retryable error ends Ping as any other error does.
terminalOnRetryable(status, err) ==
    IF status = Alive \/ status = Dead THEN TRUE
    ELSE IF err.kind = "statusNotAlive" /\ StatusMethodNotAllowed = err.code THEN FALSE
    ELSE TRUE

terminal(status, err) ==
    IF status = Alive \/ status = Dead THEN TRUE
    ELSE IF err.kind = "statusNotAlive" /\ StatusMethodNotAllowed = err.code THEN FALSE
    ELSE ~errOrStatusRetryable(err)

\* What Doer.Do may return: a response with a status code and a nil error,
\* or no response (code 0) and a *url.Error.
DoerCodes == {200, 299, 300, 404, 405} \cup dead \cup {421, 500, 503, 599}
DoerOutcomes ==
    { [code |-> c, err |-> NoErr] : c \in DoerCodes }
    \cup { [code |-> 0, err |-> UrlErr(t[1], t[2])] :
             t \in { <<TRUE, FALSE>>, <<FALSE, TRUE>>, <<FALSE, FALSE>> } }

\* The error the function given to retry.Do returns for an outcome of Do.
AttemptErr(o) ==
    IF o.err = NoErr /\ ~alive(o.code) THEN statusNotAlive(o.code) ELSE o.err

\* Mutant: ping() returns the status of a response without the error.
PingResultNoErr(o, err) ==
    IF err # NoErr /\ err.kind # "statusNotAlive"
    THEN <<Unknown, err>>
    ELSE <<check(o.code), NoErr>>

\* ping() after retry.Do has returned err with o the last outcome of Do.
PingResult(o, err) ==
    IF err # NoErr /\ err.kind # "statusNotAlive"
    THEN <<Unknown, err>>
    ELSE <<check(o.code), err>>

\* NewHTTPinger; Ping has not been called.  pgUrlOk: http.NewRequest
\* accepts the URL.
PingerInit ==
    /\ pgUrlOk \in BOOLEAN
    /\ pgPc = "idle"
    /\ pgTries = 0
    /\ pgOut = "none"
    /\ pgReqs = <<>>
    /\ pgStatus = Unknown
    /\ pgErr = NoErr

InitPing == PingerInit /\ NetscapeIdle /\ WasherUnused

pingRest == <<walkerVars, washerVars, callerVars, runVars, nwVars>>

\* Mutant: the error of http.NewRequest is ignored.
PingCallNoCheck ==
    /\ pgPc = "idle"
    /\ pgPc' = "HEAD"
    /\ UNCHANGED <<pgUrlOk, pgTries, pgOut, pgReqs, pgStatus, pgErr>>
    /\ UNCHANGED pingRest

\* Ping: the first pingFn builds its HEAD request; for a URL that
\* http.NewRequest refuses ping() returns (Dead, err) and Ping returns it.
PingCall ==
    /\ pgPc = "idle"
    /\ IF pgUrlOk
       THEN pgPc' = "HEAD" /\ UNCHANGED <<pgStatus, pgErr>>
       ELSE pgPc' = "returned" /\ pgStatus' = Dead /\ pgErr' = BadUrlErr
    /\ UNCHANGED <<pgUrlOk, pgTries, pgOut, pgReqs>>
    /\ UNCHANGED pingRest

\* Mutant: a request of either strategy may be started, whichever is running.
DoCallAnyStrategy ==
    /\ pgPc \in {"HEAD", "GET"}
    /\ pgOut = "none"
    /\ pgTries < Attempts
    /\ pgOut' \in {"HEAD", "GET"}
    /\ pgTries' = pgTries + 1
    /\ UNCHANGED <<pgUrlOk, pgPc, pgReqs, pgStatus, pgErr>>
    /\ UNCHANGED pingRest

\* retry.Do calls the function: p.Doer.Do(req) is under way.
DoCall ==
    /\ pgPc \in {"HEAD", "GET"}
    /\ pgOut = "none"
    /\ pgTries < Attempts
    /\ pgOut' = pgPc
    /\ pgTries' = pgTries + 1
    /\ UNCHANGED <<pgUrlOk, pgPc, pgReqs, pgStatus, pgErr>>
    /\ UNCHANGED pingRest

\* Do returns o.  retry.Do goes on to another attempt when the error is
\* retryable and attempts are left; else ping() returns, and Ping returns
\* when the result is terminal or no pingFn is left, else it starts GET.
DoReturn(o) ==
    /\ pgOut # "none"
    /\ pgOut' = "none"
    /\ pgReqs' = Append(pgReqs, [method |-> pgOut, out |-> o])
    /\ LET err == AttemptErr(o) IN
       IF err # NoErr /\ errOrStatusRetryable(err) /\ pgTries < Attempts
       THEN UNCHANGED <<pgPc, pgTries, pgStatus, pgErr>>
       ELSE LET res == PingResult(o, err) IN
            /\ pgStatus' = res[1]
            /\ pgErr' = res[2]
            /\ IF terminal(res[1], res[2]) \/ pgPc = "GET"
               THEN pgPc' = "returned" /\ UNCHANGED pgTries
               ELSE pgPc' = "GET" /\ pgTries' = 0
    /\ UNCHANGED pgUrlOk
    /\ UNCHANGED pingRest

NextPing ==
    \/ PingCall
    \/ DoCall
    \/ \E o \in DoerOutcomes : DoReturn(o)

SpecPing == InitPing /\ [][NextPing]_vars

\* ------------------------------------------- a probe task inside HTTPinger
\* The Washer with an HTTPinger as its Pinger: one bookmark was pulled, its
\* task holds the only slot and is about to call w.pinger.Ping(bmk.URL); the
\* caller waits in Next.
ProbeStart ==
    /\ walkLen = 1 /\ walkEnd = EOF /\ walkPos = 1 /\ walkStops = 0
    /\ built = "yes" /\ cquotaCap = 1 /\ cquotaLen = 1
    /\ done = FALSE /\ started = TRUE
    /\ washedClosed = FALSE /\ walkedClosed = FALSE
    /\ wkerr = Nil /\ wg = 1
    /\ washPc = "loop" /\ pullPc = "next" /\ pullBmk = 1
    /\ taskPc = [i \in Records |-> IF i = 1 THEN "ping" ELSE "none"]
    /\ taskStatus = [i \in Records |-> Unknown]
    /\ taskErr = [i \in Records |-> Nil]
    /\ bmkStatus = [i \in Records |-> Unknown]
    /\ nextPc = "recv" /\ returned = <<>>
    /\ RunInit

InitProbe == PingerInit /\ NetscapeIdle /\ ProbeStart

\* Ping has returned to the task: bmk.Status = status, and the task goes on
\* to deliver the Result.
ProbeReturn ==
    /\ taskPc[1] = "ping"
    /\ pgPc = "returned"
    /\ taskStatus' = [taskStatus EXCEPT ![1] = pgStatus]
    /\ taskErr' = [taskErr EXCEPT ![1] = pgErr]
    /\ bmkStatus' = [bmkStatus EXCEPT ![1] = pgStatus]
    /\ taskPc' = [taskPc EXCEPT ![1] = "deliver"]
    /\ UNCHANGED <<built, cquotaCap, cquotaLen, done, started, washedClosed, walkedClosed,
                   wkerr, wg, washPc, pullPc, pullBmk>>
    /\ UNCHANGED <<walkerVars, callerVars, runVars>>
    /\ UNCHANGED ownVars

\* The steps of Ping, Stop called from outside at any moment, and Ping's return.
NextProbe ==
    \/ NextPing
    \/ Stop
    \/ ProbeReturn

SpecProbe == InitProbe /\ [][NextProbe]_vars

\* ------------------------------------------------------------- the claims
InPing == { i \in Records : taskPc[i] = "ping" }
Spawned == { i \in Records : taskPc[i] # "none" }
ReturnedAt(i) == { n \in 1..Len(returned) : returned[n].B = i }
EofAt == { n \in 1..Len(returned) : returned[n].E = EOF }
NeverStopped == ~done

\* The Result Next has to return for bookmark i: what Ping returned for it.
Washed(i) == [B |-> i, URL |-> URLOf(i), Status |-> taskStatus[i], E |-> taskErr[i]]

\* C1: with a quota N > 0, at most N probe tasks are inside Pinger.Ping at
\* any moment of any interleaving.
C1_AtMostQuotaInPing ==
    (built = "yes" /\ cquotaCap > 0) => Cardinality(InPing) <= cquotaCap

\* Quota 2, three bookmarks spawned: two are in Ping, the third waits.
C1_Witness ==
    /\ cquotaCap = 2
    /\ Cardinality(InPing) = 2
    /\ \E i \in Records : taskPc[i] = "acquire"

\* C2: Stop never called, the Walker yields k bookmarks and then io.EOF: when
\* Next returns io.EOF it has returned exactly k results before, one for each
\* bookmark, each with the status and the error Ping returned for it.
C2_OneResultPerRecord ==
    (NeverStopped /\ walkEnd = EOF /\ EofAt # {}) =>
        /\ \A i \in 1..walkLen :
              \E n \in 1..Len(returned) :
                 /\ returned[n] = Washed(i)
                 /\ ReturnedAt(i) = {n}
                 /\ \A m \in EofAt : n < m
        /\ \A n \in 1..Len(returned) :
              returned[n] = NilResult(EOF) \/ returned[n].B \in 1..walkLen

\* Three bookmarks, returned out of the Walker's order, one with a probe error.
C2_Witness ==
    /\ NeverStopped /\ walkEnd = EOF /\ walkLen = 3
    /\ EofAt # {}
    /\ returned[1].B = 3
    /\ \E n \in 1..3 : returned[n].E # Nil

\* C3: after Stop, a Next call in flight is never stuck: washed is closed, or
\* a goroutine of the washer can still take a step towards closing it.
C3_NextEndsAfterStop ==
    (done /\ nextPc = "recv") => (ENABLED NextClosed \/ ENABLED WashStep)

\* C4: Stop never called, the Walker fails after k bookmarks: Next returns the
\* k probe results, then once the nil record with the walker error, then
\* io.EOF only.
C4_WalkerErrorLast ==
    (NeverStopped /\ walkEnd = Boom) =>
        \A n \in 1..Len(returned) :
            /\ n <= walkLen => /\ returned[n].B \in 1..walkLen
                               /\ returned[n] = Washed(returned[n].B)
                               /\ ReturnedAt(returned[n].B) = {n}
            /\ n = walkLen + 1 => returned[n] = NilResult(Boom)
            /\ n > walkLen + 1 => returned[n] = NilResult(EOF)

\* Three results, the walker error, then io.EOF twice.
C4_Witness ==
    /\ NeverStopped /\ walkEnd = Boom /\ walkLen = 3
    /\ Len(returned) = 6
    /\ returned[4] = NilResult(Boom)
    /\ returned[6] = NilResult(EOF)

\* C5: Stop never called: once Next has returned io.EOF every spawned probe
\* task has exited, and its result was returned before that io.EOF.
C5_DrainBeforeEof ==
    (NeverStopped /\ EofAt # {}) =>
        \A i \in Spawned :
            /\ taskPc[i] = "exited"
            /\ \E n \in ReturnedAt(i) : \A m \in EofAt : n < m

\* Next returned io.EOF after three probe tasks were spawned.
C5_Witness ==
    /\ NeverStopped /\ EofAt # {}
    /\ Cardinality(Spawned) = 3

\* C6: in every execution, with or without Stop, no bookmark is returned by
\* Next more than once.
C6_NoDuplicate ==
    \A i \in Records : Cardinality(ReturnedAt(i)) <= 1

\* Stop was called: one probe task delivered its result to Next and another
\* one exited without delivering.
C6_Witness ==
    /\ done
    /\ \E i, j \in Records :
          /\ i # j
          /\ taskPc[i] = "exited" /\ ReturnedAt(i) # {}
          /\ taskPc[j] = "exited" /\ ReturnedAt(j) = {}

\* C7: once Next has returned io.EOF, every later return is io.EOF with a nil
\* record, and a later call does not block: washed is closed, or closing it
\* is the next step of wash().
C7_EofForever ==
    /\ \A n \in EofAt : \A m \in 1..Len(returned) :
          n < m => returned[m] = NilResult(EOF)
    /\ (EofAt # {} /\ nextPc = "recv") => (ENABLED NextClosed \/ ENABLED WashClose)

\* io.EOF was returned twice after a record.
C7_Witness ==
    /\ Cardinality(EofAt) >= 2
    /\ \E i \in Records : ReturnedAt(i) # {}

\* C8: a Washer that was constructed has a positive quota.
C8_QuotaPositive ==
    built = "yes" => cquotaCap > 0

NoInterrupt == sigs = 0 /\ ~sigTaken

\* The fields of the line StartWashTillDone has to write for bookmark i.
LineOf(i) ==
    <<taskStatus[i], URLOf(i)>> \o (IF taskErr[i] # Nil THEN <<taskErr[i]>> ELSE <<>>)

LinesEqual(l) == Cardinality({ n \in 1..Len(out) : out[n] = l })

\* C9: no walk error, no interrupt: StartWashTillDone ends by returning, and
\* then it has written exactly one line per bookmark, status and URL,
\* followed by the error text exactly when the probe returned an error.
C9_OneLinePerRecord ==
    (NoInterrupt /\ walkEnd = EOF) =>
        /\ mainPc # "panicked"
        /\ mainPc \in {"main", "loop"} => ENABLED RunStep
        /\ mainPc = "returned" =>
              /\ Len(out) = walkLen
              /\ \A i \in 1..walkLen :
                    LinesEqual(LineOf(i))
                       = Cardinality({ j \in 1..walkLen : LineOf(j) = LineOf(i) })

\* Three bookmarks, two of one URL; lines with and without an error text.
C9_Witness ==
    /\ NoInterrupt /\ walkEnd = EOF /\ walkLen = 3
    /\ mainPc = "returned"
    /\ \E n, m \in 1..Len(out) : Len(out[n]) = 2 /\ Len(out[m]) = 3

\* C10: the Walker fails after k bookmarks, no interrupt: StartWashTillDone
\* does not abort, and when it has returned it has written k + 1 lines.
C10_WalkErrorLine ==
    (NoInterrupt /\ walkEnd = Boom) =>
        /\ mainPc # "panicked"
        /\ mainPc = "returned" => Len(out) = walkLen + 1

\* C11: once StartWashTillDone has taken a signal it has returned, whatever
\* the Walker still holds, Stop has been called on the Washer and on the
\* Walker, and from then on no line is written.
C11_InterruptStopsBoth ==
    [][ /\ sigTaken' => /\ mainPc' = "returned"
                        /\ done' /\ runDone'
                        /\ walkStops' = 1
        /\ sigTaken => out' = out ]_vars

\* The signal was taken after one line was written, with bookmarks left in
\* the Walker and a probe task still in Ping.
C11_Witness ==
    /\ sigTaken /\ mainPc = "returned"
    /\ Len(out) = 1
    /\ walkPos < walkLen
    /\ InPing # {}

\* ---- NetscapeWalker
\* The anchor elements with attributes and a well-formed add_date.
IsAnchor(e) == e \in {"AFull", "ANoHref", "ASplit"}

\* The positions of the anchors among the first j elements, in order.
RECURSIVE AnchorsFrom(_, _)
AnchorsFrom(k, j) ==
    IF k > j THEN <<>>
    ELSE IF IsAnchor(nwElems[k]) THEN <<k>> \o AnchorsFrom(k + 1, j)
    ELSE AnchorsFrom(k + 1, j)

Anchors == AnchorsFrom(1, Len(nwElems))
BadAt == { k \in 1..Len(nwElems) : nwElems[k] = "ABadDate" }
FirstBad == CHOOSE k \in BadAt : \A l \in BadAt : k <= l

\* r is the record of the k-th element: its href, its add_date read as a
\* number of seconds, and its text where the anchor holds one text.
RecordIs(r, k) ==
    /\ r.E = Nil
    /\ r.B # <<>>
    /\ r.B[1].URL = (IF nwElems[k] = "ANoHref" THEN <<>> ELSE Href(k))
    /\ r.B[1].AddDate = (IF nwElems[k] = "ASplit" THEN <<>> ELSE <<10 + k>>)
    /\ nwElems[k] # "ASplit" => r.B[1].Title = Label(k)

IsEof(r) == r.B = <<>> /\ r.E = EOF

\* A Next that waits is not stuck: walk() can step or wchan is closed.
NextCanReturn == nwNextPc = "recv" => (wchanClosed \/ ENABLED WalkStep)

\* C12: on a document without a malformed add_date that ends in io.EOF,
\* and without Stop, the n-th result of Next is the record of the n-th
\* anchor element; a heading or an anchor without attributes gives none;
\* every result after the last anchor is io.EOF; no Next is stuck.
C12_OneRecordPerAnchor ==
    (BadAt = {} /\ nwTail = EOF /\ ~nwDone) =>
        /\ \A n \in 1..Len(nwReturned) :
              IF n <= Len(Anchors)
              THEN RecordIs(nwReturned[n], Anchors[n])
              ELSE IsEof(nwReturned[n])
        /\ NextCanReturn

\* A heading and two anchors were walked to io.EOF.
C12_Witness ==
    /\ nwElems = <<"Heading", "AFull", "AFull">>
    /\ nwTail = EOF /\ ~nwDone
    /\ Len(nwReturned) = 3
    /\ RecordIs(nwReturned[2], 3)
    /\ IsEof(nwReturned[3])

\* C13: on a document with a malformed add_date, and without Stop, Next
\* returns the records of the anchors before the first malformed one, then
\* once a nil record with a non-EOF error, then io.EOF only; no Next is stuck.
C13_BadDateEndsWalk ==
    (BadAt # {} /\ ~nwDone) =>
        LET pre == AnchorsFrom(1, FirstBad - 1) IN
        /\ \A n \in 1..Len(nwReturned) :
              IF n <= Len(pre) THEN RecordIs(nwReturned[n], pre[n])
              ELSE IF n = Len(pre) + 1
              THEN nwReturned[n].B = <<>> /\ nwReturned[n].E \notin {Nil, EOF}
              ELSE IsEof(nwReturned[n])
        /\ NextCanReturn

\* The second of three anchors is malformed: one record, the error, io.EOF.
C13_Witness ==
    /\ nwElems = <<"AFull", "ABadDate", "AFull">>
    /\ ~nwDone
    /\ Len(nwReturned) = 3
    /\ RecordIs(nwReturned[1], 1)
    /\ nwReturned[2].E = SyntaxErr
    /\ IsEof(nwReturned[3])

\* C14: a result with io.EOF has a nil record and every later result is
\* the same; once io.EOF was returned a waiting Next finds wchan closed;
\* a Next that waits when the tokenizer has reported io.EOF, or when walk()
\* has returned, can return, and what it returns is a nil record with io.EOF.
C14_ExhaustionIdempotent ==
    /\ [](/\ \A n \in 1..Len(nwReturned) :
               nwReturned[n].E = EOF =>
                  \A m \in n..Len(nwReturned) : IsEof(nwReturned[m])
          /\ ((\E n \in 1..Len(nwReturned) : nwReturned[n].E = EOF)
                 /\ nwNextPc = "recv") => wchanClosed
          /\ (nwNextPc = "recv" /\ scanPc = "sendEnd") => ENABLED WalkSendEnd
          /\ (nwNextPc = "recv" /\ scanPc = "exited") => ENABLED NetscapeNextClosed)
    /\ [][ (/\ (scanPc = "sendEnd" /\ nwErr = EOF) \/ scanPc = "exited"
            /\ nwReturned' # nwReturned)
           => IsEof(nwReturned'[Len(nwReturned')]) ]_vars

\* A document was walked to its end and Next has returned io.EOF twice.
C14_Witness ==
    /\ nwElems = <<"AFull">> /\ nwTail = EOF /\ ~nwDone
    /\ Len(nwReturned) = 3
    /\ IsEof(nwReturned[2])
    /\ IsEof(nwReturned[3])

\* C15: after Stop on an endless input of well-formed elements with an
\* anchor among them, walk() stands at a select within one pass of the
\* input, the select after an anchor can take <-w.done, walk() that has
\* returned has closed wchan so that a waiting Next returns, and Next
\* returns nothing but records and io.EOF with a nil record.
C15_StopEndsEndlessWalk ==
    (nwDone /\ nwTail = Endless /\ Anchors # <<>> /\ BadAt = {}) =>
        /\ nwRun <= Len(nwToks)
        /\ scanPc \in {"idle", "scan", "sendBmk", "exited"}
        /\ scanPc = "sendBmk" => ENABLED WalkBmkDone
        /\ scanPc = "exited" => wchanClosed
        /\ (nwNextPc = "recv" /\ scanPc = "exited") => ENABLED NetscapeNextClosed
        /\ NextCanReturn
        /\ \A n \in 1..Len(nwReturned) :
              \/ IsEof(nwReturned[n])
              \/ nwReturned[n].B # <<>> /\ nwReturned[n].E = Nil

\* On an endless input a call made after Stop got a record, a later one
\* io.EOF.
C15_Witness ==
    /\ nwDone /\ nwTail = Endless /\ Anchors # <<>> /\ BadAt = {}
    /\ Len(nwReturned) >= 2
    /\ \E n \in 1..Len(nwReturned) : nwReturned[n].Late /\ nwReturned[n].E = Nil
    /\ IsEof(nwReturned[Len(nwReturned)])

\* C16: a call of Next that began after Stop had returned returns a nil
\* record with io.EOF.
C16_EofAfterStop ==
    \A n \in 1..Len(nwReturned) : nwReturned[n].Late => IsEof(nwReturned[n])

\* C17: every result with a nil error holds a record with a non-empty URL.
C17_UrlNonEmpty ==
    \A n \in 1..Len(nwReturned) :
        nwReturned[n].E = Nil =>
            nwReturned[n].B # <<>> /\ nwReturned[n].B[1].URL # <<>>

\* ---- HTTPinger
IsHead(r) == r.method = "HEAD"
IsGet(r) == r.method = "GET"
HeadReqs == SelectSeq(pgReqs, IsHead)
GetReqs == SelectSeq(pgReqs, IsGet)
LastHead == HeadReqs[Len(HeadReqs)].out
LastGet == GetReqs[Len(GetReqs)].out
GetIssued == pgOut = "GET" \/ GetReqs # <<>>
Issued(m) == Len(SelectSeq(pgReqs, LAMBDA r : r.method = m)) + (IF pgOut = m THEN 1 ELSE 0)

\* An outcome of Do that is retried: a transport error flagged temporary or
\* timeout, or one of the retryable statuses.
Retried(o) ==
    \/ o.err.kind = "url.Error" /\ (o.err.temp \/ o.err.tmout)
    \/ o.err = NoErr /\ o.code \in {421, 429, 500, 502, 503, 504, 507, 599}

Is405(o) == o.err = NoErr /\ o.code = 405
StatusOf(o) == IF o.err # NoErr THEN Unknown ELSE check(o.code)

\* The HEAD strategy ended with 405 or used up its attempts on retryable
\* outcomes.
HeadOpen == Is405(LastHead) \/ (Len(HeadReqs) = Attempts /\ Retried(LastHead))

\* C18 as stated: a GET request is issued only after HEAD ended with 405.
C18_GetOnlyAfter405 == GetIssued => Is405(LastHead)

\* C18, amended: a GET request is issued only when the HEAD strategy ended
\* with 405 or with a retryable outcome on its last attempt, and Ping that
\* returned without a GET had a HEAD strategy that ended otherwise.
C18_GetAfter405OrExhausted ==
    /\ GetIssued => HeadOpen
    /\ (pgPc = "returned" /\ pgUrlOk /\ ~GetIssued) => ~HeadOpen

\* HEAD used up its attempts on retryable outcomes and GET was served.
C18_Witness ==
    /\ pgPc = "returned"
    /\ Len(HeadReqs) = Attempts /\ Retried(LastHead)
    /\ Len(GetReqs) = 1 /\ StatusOf(LastGet) = Alive

\* An outcome after which Ping stops: Alive or Dead, or an error that is
\* neither retryable nor 405.
StopsAfter(o) ==
    \/ StatusOf(o) \in {Alive, Dead}
    \/ ~Retried(o) /\ ~Is405(o)

\* C19: Ping goes from HEAD to GET exactly when HEAD's result is not one it
\* stops after; HEAD that used up its attempts on retryable outcomes is
\* followed by GET, which again gets all its attempts; when GET uses them up
\* on retryable outcomes too, Ping returns Unknown with the error of the
\* last attempt, after twice Attempts requests; Ping is never stuck.
C19_StopsExactlyOnTerminal ==
    /\ (pgPc = "returned" /\ pgUrlOk) => (GetReqs = <<>> <=> StopsAfter(LastHead))
    /\ pgPc = "GET" => ~StopsAfter(LastHead)
    /\ (Len(HeadReqs) = Attempts /\ Retried(LastHead)) =>
           pgPc = "GET" \/ (pgPc = "returned" /\ GetReqs # <<>>)
    /\ (pgPc = "returned" /\ GetReqs # <<>> /\ Retried(LastGet)) =>
           /\ Len(GetReqs) = Attempts
           /\ pgStatus = Unknown
           /\ pgErr = AttemptErr(LastGet)
           /\ Len(HeadReqs) = Attempts => Len(pgReqs) = 2 * Attempts
    /\ pgPc # "returned" => ENABLED NextPing

\* Both strategies used up their attempts on retryable outcomes.
C19_Witness ==
    /\ pgPc = "returned"
    /\ Len(HeadReqs) = Attempts /\ Retried(LastHead)
    /\ Len(GetReqs) = Attempts /\ Retried(LastGet)
    /\ pgStatus = Unknown /\ pgErr = UrlErr(FALSE, TRUE)

\* C20: a strategy issues at most Attempts requests, a request follows one
\* of the same strategy only when that one had a retryable outcome, and one
\* Ping issues at most twice Attempts requests.
C20_RetryOnlyRetryable ==
    /\ Issued("HEAD") <= Attempts
    /\ Issued("GET") <= Attempts
    /\ Issued("HEAD") + Issued("GET") <= 6
    /\ \A i \in 1..(Len(pgReqs) - 1) :
          pgReqs[i].method = pgReqs[i + 1].method => Retried(pgReqs[i].out)
    /\ (pgReqs # <<>> /\ pgOut = pgReqs[Len(pgReqs)].method) =>
          Retried(pgReqs[Len(pgReqs)].out)

\* Six requests were issued and the last one was answered 200.
C20_Witness ==
    /\ pgPc = "returned"
    /\ Len(pgReqs) = 6
    /\ pgStatus = Alive
    /\ \E i \in 1..5 : pgReqs[i].out.code = 599

Ok2xx(o) == o.err = NoErr /\ o.code >= 200 /\ o.code <= 299
Returned(status, err) ==
    pgPc = "returned" /\ pgOut = "none" /\ pgStatus = status /\ pgErr = err

\* C21: when the first HEAD request is answered with a status in
\* {409, 410, 413, 414, 422, 424, 501}, Ping has returned Dead with the
\* statusNotAlive error of that status and that request is the only one.
C21_DeadAfterOneHead ==
    (pgReqs # <<>> /\ pgReqs[1].out.err = NoErr
       /\ pgReqs[1].out.code \in {409, 410, 413, 414, 422, 424, 501}) =>
        /\ Returned(Dead, statusNotAlive(pgReqs[1].out.code))
        /\ Len(pgReqs) = 1
        /\ pgReqs[1].method = "HEAD"

\* The first HEAD request was answered 424.
C21_Witness ==
    /\ pgReqs # <<>>
    /\ pgReqs[1].out.code = 424
    /\ pgStatus = Dead

\* The requests of strategy m: all but the last had a retryable outcome and
\* the last was answered 2xx.
RetriedThenAlive(q) ==
    /\ q # <<>>
    /\ Ok2xx(q[Len(q)].out)
    /\ \A i \in 1..(Len(q) - 1) : Retried(q[i].out)

\* C22: when a strategy's attempts had retryable outcomes up to one answered
\* 2xx, Ping has returned Alive with a nil error and that strategy issued no
\* request after it; after HEAD that is all the requests of the Ping.
C22_AliveAfterRetries ==
    /\ RetriedThenAlive(HeadReqs) =>
          /\ Returned(Alive, NoErr)
          /\ Len(HeadReqs) <= Attempts
          /\ pgReqs = HeadReqs
    /\ RetriedThenAlive(GetReqs) =>
          /\ Returned(Alive, NoErr)
          /\ Len(GetReqs) <= Attempts
          /\ Len(pgReqs) = Len(HeadReqs) + Len(GetReqs)

\* HEAD was answered 500, 503, 200.
C22_Witness ==
    /\ Len(pgReqs) = 3
    /\ pgReqs[1] = [method |-> "HEAD", out |-> [code |-> 500, err |-> NoErr]]
    /\ pgReqs[2] = [method |-> "HEAD", out |-> [code |-> 503, err |-> NoErr]]
    /\ pgReqs[3] = [method |-> "HEAD", out |-> [code |-> 200, err |-> NoErr]]
    /\ Returned(Alive, NoErr)

\* C23: when the first HEAD request is answered 405, no second HEAD request
\* is issued and Ping goes on to GET; when the first GET request is then
\* answered 200, Ping has returned Alive with a nil error after these two
\* requests.
C23_EscalateOn405 ==
    (pgReqs # <<>> /\ Is405(pgReqs[1].out)) =>
        /\ Issued("HEAD") = 1
        /\ pgPc = "GET" \/ (pgPc = "returned" /\ GetReqs # <<>>)
        /\ pgPc = "GET" => ENABLED NextPing
        /\ (Len(pgReqs) >= 2 /\ pgReqs[2].out = [code |-> 200, err |-> NoErr]) =>
              /\ pgReqs[2].method = "GET"
              /\ Returned(Alive, NoErr)
              /\ Len(pgReqs) = 2

\* HEAD was answered 405 and GET 200.
C23_Witness ==
    /\ Len(pgReqs) = 2
    /\ Is405(pgReqs[1].out)
    /\ pgReqs[2] = [method |-> "GET", out |-> [code |-> 200, err |-> NoErr]]
    /\ pgPc = "returned"

\* A status that is not 2xx, dead, retryable or 405, or a transport error
\* that is neither temporary nor timeout.
Permanent(o) ==
    \/ /\ o.err = NoErr
       /\ ~(o.code >= 200 /\ o.code <= 299)
       /\ o.code \notin {409, 410, 413, 414, 422, 424, 501}
       /\ o.code \notin {421, 429, 500, 502, 503, 504, 507, 599}
       /\ o.code # 405
    \/ o.err.kind = "url.Error" /\ ~o.err.temp /\ ~o.err.tmout

\* C24: when the first HEAD request has such an outcome, Ping has returned
\* Unknown with the error of that outcome and that request is the only one.
C24_UnknownAfterOneHead ==
    (pgReqs # <<>> /\ Permanent(pgReqs[1].out)) =>
        /\ Returned(Unknown, AttemptErr(pgReqs[1].out))
        /\ pgErr # NoErr
        /\ Len(pgReqs) = 1
        /\ pgReqs[1].method = "HEAD"

\* The first HEAD request ended with a transport error that is neither
\* temporary nor timeout.
C24_Witness ==
    /\ Len(pgReqs) = 1
    /\ pgReqs[1].out.err = UrlErr(FALSE, FALSE)
    /\ pgStatus = Unknown /\ pgPc = "returned"

\* C25: what Ping returns: Unknown with the error of the last attempt,
\* which is not nil; Alive with a nil error; Dead with an error.
C25_StatusAndError ==
    pgPc = "returned" =>
        /\ pgStatus = Unknown =>
              /\ pgErr # NoErr
              /\ pgReqs # <<>>
              /\ pgErr = AttemptErr(pgReqs[Len(pgReqs)].out)
        /\ pgStatus = Alive => pgErr = NoErr
        /\ pgStatus = Dead => pgErr # NoErr

\* HEAD was answered 405 and GET 404: Unknown with the error of 404.
C25_Witness ==
    /\ pgPc = "returned"
    /\ Len(pgReqs) = 2
    /\ pgReqs[2].out.code = 404
    /\ pgStatus = Unknown /\ pgErr = statusNotAlive(404)

\* C26: for a URL that http.NewRequest refuses no request is issued, Ping
\* can return, and it returns Dead with an error.
C26_BadUrlIsDead ==
    ~pgUrlOk =>
        /\ pgReqs = <<>> /\ pgOut = "none"
        /\ pgPc \in {"idle", "returned"}
        /\ pgPc = "idle" => ENABLED PingCall
        /\ pgPc = "returned" => pgStatus = Dead /\ pgErr # NoErr

\* Ping has returned for such a URL.
C26_Witness == ~pgUrlOk /\ pgPc = "returned" /\ pgErr = BadUrlErr

\* ---- the Washer's probe tasks
\* Ping has returned for bookmark i: it never returns Unknown with a nil error.
Pinged(i) == <<taskStatus[i], taskErr[i]>> \in PingOutcomes
HoldsSlot == { i \in Records : taskPc[i] \in {"ping", "deliver"} }

\* C27: a task that has not left Ping has no result and its bookmark's Status
\* is untouched; a task that has left Ping never enters it again and the
\* Status is written in the step that leaves Ping and in no other; a result
\* Next returned carries that Status; without Stop, once washed is closed,
\* Ping has returned for every bookmark the Walker yielded.
C27_PingedOnce ==
    /\ [](/\ \A i \in Records :
               taskPc[i] \in {"none", "acquire", "ping"} =>
                   ~Pinged(i) /\ bmkStatus[i] = Unknown
          /\ \A n \in 1..Len(returned) :
               returned[n].B \in Records =>
                   /\ Pinged(returned[n].B)
                   /\ returned[n].Status = bmkStatus[returned[n].B]
                   /\ returned[n].Status = taskStatus[returned[n].B]
          /\ (NeverStopped /\ washedClosed) =>
               \A i \in 1..walkPos : Pinged(i) /\ taskPc[i] = "exited")
    /\ [][\A i \in Records :
            /\ (bmkStatus'[i] # bmkStatus[i] \/ taskStatus'[i] # taskStatus[i]
                   \/ taskErr'[i] # taskErr[i]) =>
                  (taskPc[i] = "ping" /\ taskPc'[i] = "deliver")
            /\ taskPc[i] \in {"deliver", "exited"} =>
                  taskPc'[i] \in {"deliver", "exited"}]_vars

\* Without Stop three bookmarks were probed, one Alive and one with an error,
\* and washed is closed.
C27_Witness ==
    /\ NeverStopped /\ washedClosed /\ walkPos = 3
    /\ \E i, j \in Records : bmkStatus[i] = Alive /\ taskErr[j] = "poom!"
    /\ \A i \in Records : ReturnedAt(i) # {}

\* C28: the occupied slots of cquota are those of the tasks between their
\* admission and their exit, never more than the quota; when every task has
\* exited no slot is occupied.
C28_QuotaNeverLeaks ==
    /\ cquotaLen = Cardinality(HoldsSlot)
    /\ cquotaLen >= 0
    /\ built = "yes" => cquotaLen <= cquotaCap
    /\ (\A i \in Records : taskPc[i] \in {"none", "exited"}) => cquotaLen = 0

\* After Stop every task has exited: one left at its delivery without
\* delivering, one had a probe error, and no slot is occupied.
C28_Witness ==
    /\ done /\ cquotaLen = 0
    /\ Spawned # {}
    /\ \A i \in Spawned : taskPc[i] = "exited"
    /\ \E i \in Spawned : Pinged(i) /\ ReturnedAt(i) = {}
    /\ \E i \in Spawned : taskErr[i] = "poom!"

\* C29: once Stop was called no task goes from waiting for a slot into Ping.
C29_NoAdmissionAfterStop ==
    [][done => \A i \in Records : ~(taskPc[i] = "acquire" /\ taskPc'[i] = "ping")]_vars
\* C30: once Stop was called the Doer is called no more: a request under way
\* may return, no request is started.
C30_NoRequestAfterStop ==
    [][done => ~(pgOut = "none" /\ pgOut' # "none")]_vars
\* ---- sitting of the remaining claims
\* C31: after NetscapeWalker.Stop walk() does not scan a whole pass of the
\* input without standing at a select, where it would see w.done.
C31_ScanEndsAfterStop ==
    (nwDone /\ scanPc = "scan") => nwRun <= Len(nwToks)
\* C32: when wash() has exited and the puller has captured a walker error
\* other than io.EOF, Next has returned that error exactly once, and before
\* any io.EOF.
C32_WalkerErrorDelivered ==
    (washPc = "exited" /\ wkerr = Boom) =>
        /\ Cardinality({ n \in 1..Len(returned) : returned[n].E = Boom }) = 1
        /\ \A n \in EofAt : \E m \in 1..(n - 1) : returned[m].E = Boom
\* The goroutines of wash() that have not exited.
Running == { i \in Records : taskPc[i] \in {"acquire", "ping", "deliver"} }
InternalExited ==
    /\ washPc = "exited"
    /\ pullPc = "exited"
    /\ Running = {}

\* C33: once Stop was called no goroutine of wash() is blocked for good: the
\* puller, the dispatcher and every probe task that has not exited can take a
\* step of its own, and the deferred wg.Wait() waits only for tasks that are
\* still running; each such step moves a goroutine forward, so all exit.
C33_AllExitAfterStop ==
    (done /\ started) =>
        /\ pullPc = "next" => ENABLED PullNext
        /\ pullPc = "send" => ENABLED PullDone
        /\ washPc = "loop" => ENABLED DispatchDone
        /\ washPc = "wait" => (ENABLED WashWait \/ Running # {})
        /\ washPc = "senderr" => ENABLED WashSendErrDone
        /\ washPc = "close" => ENABLED WashClose
        /\ wg = Cardinality(Running)
        /\ \A i \in Records :
             /\ taskPc[i] = "acquire" => ENABLED TaskAcquireDone(i)
             /\ taskPc[i] = "ping" => ENABLED TaskPing(i)
             /\ taskPc[i] = "deliver" => ENABLED TaskDeliverDone(i)
        /\ InternalExited \/ ENABLED WashStep

\* After Stop everything has exited: one task gave up before Ping, another
\* after it without delivering, and the puller gave up handing over a
\* bookmark it had pulled.
C33_Witness ==
    /\ done /\ started /\ InternalExited
    /\ \E i \in Spawned : ~Pinged(i)
    /\ \E i \in Spawned : Pinged(i) /\ ReturnedAt(i) = {}
    /\ Cardinality(Spawned) < walkPos
\* The tokens of the first k elements, and the records walk() has completed:
\* the anchors whose end tag the tokenizer has handed out.
RECURSIVE EndPos(_)
EndPos(k) == IF k = 0 THEN 0 ELSE EndPos(k - 1) + Len(Markup(nwElems[k], k))
Completed ==
    Cardinality({ k \in 1..Len(nwElems) : IsAnchor(nwElems[k]) /\ EndPos(k) <= zPos })
Got == Cardinality({ n \in 1..Len(nwReturned) : nwReturned[n].B # <<>> })

\* C34: before the first Next no token is read and nothing is returned; on an
\* input that ends, while walk() scans every record it completed has been
\* returned, and at any moment it has completed at most one record more than
\* Next returned; Next gets a record only in a step where walk() stands at
\* the send of that record and Next at its receive.
C34_LazySingleSlot ==
    /\ [](/\ ~nwStarted => (scanPc = "idle" /\ zPos = 0 /\ nwReturned = <<>>)
          /\ nwTail # Endless =>
               /\ Completed <= Got + 1
               /\ scanPc = "scan" => Completed = Got
               /\ scanPc = "sendBmk" => Completed = Got + 1)
    /\ [][(Len(nwReturned') > Len(nwReturned)
             /\ nwReturned'[Len(nwReturned')].B # <<>>) =>
            /\ scanPc = "sendBmk" /\ nwNextPc = "recv"
            /\ nwReturned'[Len(nwReturned')].B = bmk
            /\ Len(nwReturned') = Len(nwReturned) + 1]_vars

\* Three anchors: two were returned, walk() holds the third at its send
\* and no Next is waiting.
C34_Witness ==
    /\ Len(Anchors) = 3 /\ nwTail # Endless
    /\ Got = 2 /\ Completed = 3
    /\ scanPc = "sendBmk" /\ nwNextPc = "idle"
\* C35: the record of an anchor whose text comes in two text tokens, split
\* by a nested element, has both texts in order as its title.
C35_TitleAccumulates ==
    \A n \in 1..Len(nwReturned) : \A k \in 1..Len(nwElems) :
        (/\ nwElems[k] = "ASplit"
         /\ nwReturned[n].B # <<>>
         /\ nwReturned[n].B[1].URL = Href(k)) =>
            nwReturned[n].B[1].Title = Label(k) \o Label2(k)
\* The tasks whose Result waits for Next.
Pending == { i \in Records : taskPc[i] = "deliver" }

\* C36: a slot is given back only in the step in which its task leaves its
\* delivery, by handing the Result to Next or, after Stop, without; so the
\* tasks admitted and not yet past their delivery are never more than the
\* quota, and when as many Results are pending as there are slots no task
\* can be admitted, and with Next not waiting and no Stop none can deliver.
C36_SlotHeldUntilDelivered ==
    /\ [](built = "yes" =>
            /\ Cardinality(InPing \cup Pending) <= cquotaCap
            /\ Cardinality(Pending) = cquotaCap =>
                 /\ \A i \in Records : ~ENABLED TaskAcquire(i)
                 /\ (nextPc = "idle" /\ ~done) =>
                      \A i \in Records : ~ENABLED TaskDeliver(i) /\ ~ENABLED TaskDeliverDone(i))
    /\ [][cquotaLen' < cquotaLen =>
            \E i \in Pending :
               /\ taskPc'[i] = "exited"
               /\ cquotaLen' = cquotaLen - 1
               /\ \/ done
                  \/ /\ nextPc = "recv"
                     /\ returned' = Append(returned, Washed(i))]_vars

\* The only slot is held by a task whose Result is pending, Next is not
\* waiting, Stop was not called and another task waits for a slot.
C36_Witness ==
    /\ built = "yes" /\ cquotaCap = 1 /\ ~done
    /\ Cardinality(Pending) = 1
    /\ nextPc = "idle"
    /\ \E i \in Records : taskPc[i] = "acquire"
\* C37: washed is closed only by wash()'s deferred function, once, when no
\* probe task is left, and no task is started later; walked is closed only
\* by the puller as it returns, once; so nothing sends on a closed channel.
C37_NoSendOnClosed ==
    /\ [](/\ washedClosed =>
               /\ Running = {} /\ washPc = "exited"
               /\ ~ENABLED WashClose /\ ~ENABLED Dispatch
               /\ ~ENABLED WashSendErr
               /\ \A i \in Records : ~ENABLED TaskDeliver(i)
          /\ walkedClosed =>
               /\ pullPc = "exited"
               /\ ~ENABLED Dispatch /\ ~ENABLED PullNext /\ ~ENABLED PullDone)
    /\ [][/\ washedClosed => washedClosed'
          /\ walkedClosed => walkedClosed'
          /\ (washedClosed' /\ ~washedClosed) =>
               (washPc = "close" /\ washPc' = "exited" /\ Running = {})
          /\ (walkedClosed' /\ ~walkedClosed) =>
               (pullPc \in {"next", "send"} /\ pullPc' = "exited")]_vars

\* After Stop both channels are closed; two tasks had been started and one
\* of them left its delivery without delivering.
C37_Witness ==
    /\ done /\ washedClosed /\ walkedClosed
    /\ Cardinality(Spawned) >= 2
    /\ \E i \in Spawned : Pinged(i) /\ ReturnedAt(i) = {}
\* StartWashTillDone has returned or panicked.
RunOver == mainPc \in {"returned", "panicked"}

\* C38: while StartWashTillDone is in its loop neither Stop was called and
\* its done is open, so its way out is never barred by a closed channel;
\* once it has returned or panicked, washer.Stop and walker.Stop were called
\* once each and done was closed; the calls happen in the step that leaves
\* the loop and in no other.
C38_StopOnceEach ==
    /\ [](/\ mainPc = "loop" =>
               /\ ~done /\ ~runDone /\ walkStops = 0
               /\ runWashedClosed => ENABLED RunClosed
               /\ sigs > 0 => ENABLED RunSignal
          /\ RunOver => (done /\ runDone /\ walkStops = 1)
          /\ mainPc \in {"main", "exit1"} => (~done /\ ~runDone /\ walkStops = 0))
    /\ [][(done' # done \/ walkStops' # walkStops \/ runDone' # runDone) =>
            /\ mainPc = "loop" /\ RunOver'
            /\ ~done /\ done'
            /\ ~runDone /\ runDone'
            /\ walkStops' = walkStops + 1]_vars

\* StartWashTillDone returned at the walk's end, without a signal, after
\* writing two lines.
C38_Witness ==
    /\ mainPc = "returned" /\ sigs = 0 /\ ~sigTaken
    /\ Len(out) = 2
    /\ done /\ walkStops = 1
\* The tasks that wait for a slot.
Waiting == { i \in Records : taskPc[i] = "acquire" }

\* C39: whenever the puller offers a bookmark and the dispatcher is in its
\* loop the hand-over can happen, whatever the quota holds; without Stop
\* there is one task for every bookmark handed over; a hand-over starts a
\* task that waits for a slot and takes none.
C39_SpawnNotGated ==
    /\ [](/\ (pullPc = "send" /\ washPc = "loop") => ENABLED Dispatch
          /\ (started /\ ~done) =>
               Spawned = 1..(IF pullPc = "send" THEN walkPos - 1 ELSE walkPos))
    /\ [][Cardinality(Spawned') > Cardinality(Spawned) =>
            /\ Spawned' = Spawned \cup {pullBmk}
            /\ Waiting' = Waiting \cup {pullBmk}
            /\ cquotaLen' = cquotaLen]_vars

\* With a quota of 1 and three bookmarks yielded, one task holds the slot
\* and two wait: more than the quota, the yield less the quota.
C39_Witness ==
    /\ cquotaCap = 1 /\ cquotaLen = 1 /\ walkPos = 3
    /\ Cardinality(Waiting) = walkPos - cquotaCap
    /\ Cardinality(Waiting) > cquotaCap
\* The HEAD strategy is over: its last request had an outcome that is not
\* retried, or it has made all its attempts.
HeadOver ==
    /\ HeadReqs # <<>>
    /\ pgOut # "HEAD"
    /\ ~Retried(LastHead) \/ Len(HeadReqs) = Attempts

\* C40: while a request is outstanding no request is started, and the next
\* thing that happens to it is its return; among the requests of one Ping no
\* HEAD follows a GET; a GET request is issued only when the HEAD strategy
\* is over.
C40_SequentialHeadThenGet ==
    /\ [](/\ pgOut # "none" => ~ENABLED DoCall
          /\ \A m, n \in 1..Len(pgReqs) :
                (m < n /\ IsGet(pgReqs[m])) => IsGet(pgReqs[n])
          /\ pgOut = "HEAD" => GetReqs = <<>>
          /\ GetIssued => (HeadOver /\ pgPc \in {"GET", "returned"}))
    /\ [][/\ pgOut # "none" =>
               /\ pgOut' = "none"
               /\ pgReqs' = Append(pgReqs, [method |-> pgOut,
                                            out |-> pgReqs'[Len(pgReqs')].out])
          /\ (pgOut = "none" /\ pgOut' # "none") =>
               (pgReqs' = pgReqs /\ pgOut' = pgPc)]_vars

\* HEAD made all its attempts, the first GET was answered and the second
\* GET is outstanding.
C40_Witness ==
    /\ Len(HeadReqs) = Attempts
    /\ Len(GetReqs) = 1
    /\ pgOut = "GET"

====
